---- MODULE Spec2Model ----
(***************************************************************************)
(* Webhook endpoints of prisma-collective/enrol:                           *)
(*   src/app/api/submission/route.ts            POST / GET / DELETE        *)
(*   src/app/api/webhook/participants/teams/update/route.ts   POST         *)
(* over two Redis lists, enrolment-submissions and                         *)
(* enrolment-participants-teams.                                           *)
(*                                                                         *)
(* Representation of JavaScript data.                                      *)
(*   - A JS scalar is a record [t, s]: t is "undef", "null", "str" or      *)
(*     "num" and s the string (for a number, its decimal digits).          *)
(*   - Strings are TLA+ strings; includes, toLowerCase, trim and the       *)
(*     whitespace replace are computed character by character.             *)
(*   - A form field is [key, label, type, value, options]; key, label,     *)
(*     type and options are strings where "" stands for a falsy (absent    *)
(*     or empty) attribute, value is a JS scalar.                          *)
(*   - A JSON document (a parsed body, a list element) is a record with    *)
(*     kind "null", "num", "str" or "obj"; a list element is identified    *)
(*     with the JSON value JSON.stringify serialised.                      *)
(***************************************************************************)
EXTENDS Integers, Sequences, FiniteSets, TLC

VARIABLES
    submissions,   \* Redis list 'enrolment-submissions', head first
    teams,         \* Redis list 'enrolment-participants-teams', head first
    initial,       \* teams as it was when the run started
    last,          \* the submission request answered last and its response
    procs          \* the requests in flight, each suspended at an await of Redis

vars == <<submissions, teams, initial, last, procs>>

(***************************************************************************)
(* Bounds of the model.                                                    *)
(***************************************************************************)
MaxSubmissions == 3     \* length of enrolment-submissions past which no POST is sent

(***************************************************************************)
(* JS scalars.                                                             *)
(***************************************************************************)
Undef  == [t |-> "undef", s |-> ""]
Null   == [t |-> "null",  s |-> ""]
Str(x) == [t |-> "str",   s |-> x]
Num(x) == [t |-> "num",   s |-> x]

\* ToBoolean: undefined, null, '' and 0 are falsy
Truthy(v) ==
    \/ v.t = "str" /\ v.s # ""
    \/ v.t = "num" /\ v.s # "0"

\* a || b
OrElse(a, b) == IF Truthy(a) THEN a ELSE b

\* String(v) for a string or a number
StringOf(v) == v.s

(***************************************************************************)
(* Strings.                                                                *)
(***************************************************************************)
\* The model's strings are over the ASCII characters a TLA+ string can hold:
\* the printable ones but the grave accent, and the six ASCII characters \s
\* matches (vertical tab is written as itself). toLowerCase, trim and the \s
\* replace are tabulated over them and have no value on any other character.
UpperChars == "ABCDEFGHIJKLMNOPQRSTUVWXYZ"
LowerChars == "abcdefghijklmnopqrstuvwxyz"
OtherChars == "0123456789 !\"#$%&'()*+,-./:;<=>?@[\\]^_{|}~\t\n\f\r"

CharAt(s, i) == SubSeq(s, i, i)

CharsOf(s) == {CharAt(s, i) : i \in 1..Len(s)}

Chars == CharsOf(UpperChars) \cup CharsOf(LowerChars) \cup CharsOf(OtherChars)

\* toLowerCase of one character: the 26 capitals map to their small letters,
\* every other ASCII character to itself
LowerOf ==
    [c \in Chars |->
        IF c \in CharsOf(UpperChars)
        THEN CharAt(LowerChars, CHOOSE i \in 1..Len(UpperChars) : CharAt(UpperChars, i) = c)
        ELSE c]

LowerChar(c) == LowerOf[c]

\* the ASCII characters \s and trim match: space, tab, line feed, form feed,
\* carriage return and vertical tab
WhiteSpace == {" ", "\t", "\n", "\f", "\r", ""}

SpaceOf == [c \in Chars |-> c \in WhiteSpace]

IsSpace(c) == SpaceOf[c]

RECURSIVE toLowerCase(_)
toLowerCase(s) ==
    IF Len(s) = 0 THEN ""
    ELSE LowerChar(CharAt(s, 1)) \o toLowerCase(SubSeq(s, 2, Len(s)))

RECURSIVE trimStart(_)
trimStart(s) ==
    IF Len(s) = 0 THEN ""
    ELSE IF IsSpace(CharAt(s, 1)) THEN trimStart(SubSeq(s, 2, Len(s)))
    ELSE s

RECURSIVE trimEnd(_)
trimEnd(s) ==
    IF Len(s) = 0 THEN ""
    ELSE IF IsSpace(CharAt(s, Len(s))) THEN trimEnd(SubSeq(s, 1, Len(s) - 1))
    ELSE s

trim(s) == trimEnd(trimStart(s))

\* s.replace(/\s+/g, '')
RECURSIVE removeWhitespace(_)
removeWhitespace(s) ==
    IF Len(s) = 0 THEN ""
    ELSE IF IsSpace(CharAt(s, 1)) THEN removeWhitespace(SubSeq(s, 2, Len(s)))
    ELSE CharAt(s, 1) \o removeWhitespace(SubSeq(s, 2, Len(s)))

\* s.includes(needle), needle non-empty
includes(s, needle) ==
    \E i \in 1..(Len(s) - Len(needle) + 1) :
        SubSeq(s, i, i + Len(needle) - 1) = needle

(***************************************************************************)
(* Field Extractor (teams/update/route.ts).                                *)
(***************************************************************************)
\* `${i}` for i in 1..9
Digit(i) == CharAt("123456789", i)

\* The labels the handlers look for and the labels the model's records carry:
\* includes is tabulated once over them (a memo of includes, nothing else).
LabelsSought ==
    {Digit(i) \o ": Email" : i \in 1..9} \cup {Digit(i) \o ": Phone number" : i \in 1..9}
    \cup {"Email of person filling this form",
          "Phone number of person filling this form", "Team ID"}

LabelsCarried ==
    {"", "Team name", "Notes", "Team ID",
     "Email of person filling this form", "Phone number of person filling this form",
     "1: Email", "1: Phone number", "2: Email", "2: Phone number",
     "3: Email", "3: Phone number", "11: Email", "1: Phone number (mobile)"}

IncludesMemo == [needle \in LabelsSought |-> {s \in LabelsCarried : includes(s, needle)}]

\* field?.label?.includes(label)
labelIncludes(fieldLabel, label) ==
    IF label \in LabelsSought /\ fieldLabel \in LabelsCarried
    THEN fieldLabel \in IncludesMemo[label]
    ELSE includes(fieldLabel, label)

NoField == [key |-> "", label |-> "", type |-> "", value |-> Undef, options |-> ""]

\* findFieldByLabel returns the first field whose label contains `label`, or
\* null; the result is [found, field].
findFieldByLabel(fields, label) ==
    LET hits == SelectSeq(fields, LAMBDA field : labelIncludes(field.label, label)) IN
    IF Len(hits) > 0 THEN [found |-> TRUE, field |-> hits[1]]
    ELSE [found |-> FALSE, field |-> NoField]

\* field?.value
ValueOf(r) == IF r.found THEN r.field.value ELSE Undef

normalizeEmail(email) ==
    IF ~Truthy(email) \/ email.t # "str" THEN ""
    ELSE trim(toLowerCase(email.s))

normalizePhone(phone) ==
    IF ~Truthy(phone) \/ phone.t # "str" THEN ""
    ELSE trim(removeWhitespace(phone.s))

(***************************************************************************)
(* JSON documents, raw bodies and signatures.                              *)
(***************************************************************************)
NoData ==
    [responseId |-> Undef, submissionId |-> Undef, respondentId |-> Undef,
     formId |-> Undef, formName |-> Undef, createdAt |-> Undef,
     hasFields |-> FALSE, fields |-> <<>>]

\* a JSON value that is not an object: null, a number or a string
Scalar(kind) ==
    [kind |-> kind, eventId |-> Undef, createdAt |-> Undef,
     hasData |-> FALSE, data |-> NoData, pts |-> Undef]

\* a JSON object; pts is its 'previous-team-state'
Obj(eventId, createdAt, hasData, data) ==
    [kind |-> "obj", eventId |-> eventId, createdAt |-> createdAt,
     hasData |-> hasData, data |-> data, pts |-> Undef]

\* a raw request body: text that JSON.parse accepts (giving json) or rejects
Body(json)  == [parses |-> TRUE,  json |-> json]
Malformed   == [parses |-> FALSE, json |-> Scalar("null")]

\* the tally-signature header: absent (''), or the base64 HMAC-SHA256 of some body
NoSignature == [present |-> FALSE, mac |-> Malformed]
Sign(body)  == [present |-> TRUE,  mac |-> body]

\* isValidSignature: timingSafeEqual(calculated, received), false when it throws
\* on buffers of different length
isValidSignature(payload, receivedSignature) ==
    receivedSignature.present /\ receivedSignature.mac = payload

\* handleError: every exception caught by a POST handler becomes a 500
handleError == 500

(***************************************************************************)
(* Redis list operations.                                                  *)
(***************************************************************************)
lpush(list, value) == <<value>> \o list

lrange(list) == list

\* mutant of lrem: LREM key 0 value, which removes every equal element
lremAll(list, value) == SelectSeq(list, LAMBDA x : x # value)

\* LREM key 1 value: removes the first element equal to value, if any
lrem(list, value) ==
    IF \E i \in 1..Len(list) : list[i] = value
    THEN LET k == CHOOSE i \in 1..Len(list) :
                     list[i] = value /\ \A j \in 1..(i - 1) : list[j] # value
         IN  SubSeq(list, 1, k - 1) \o SubSeq(list, k + 1, Len(list))
    ELSE list

(***************************************************************************)
(* submission/route.ts: POST.                                              *)
(***************************************************************************)
\* line 54 reads json.eventType and json.data.formName after the push: a
\* TypeError when json is null or json.data is undefined
LogLineThrows(json) == json.kind = "null" \/ ~json.hasData

\* the response status and whether lpush was executed
PostOutcome(req, redisUp) ==
    IF ~isValidSignature(req.body, req.signature) THEN [status |-> 401, pushed |-> FALSE]
    ELSE IF ~req.body.parses THEN [status |-> 400, pushed |-> FALSE]
    ELSE IF ~redisUp THEN [status |-> handleError, pushed |-> FALSE]
    ELSE IF LogLineThrows(req.body.json) THEN [status |-> handleError, pushed |-> TRUE]
    ELSE [status |-> 200, pushed |-> TRUE]

(***************************************************************************)
(* submission/route.ts: GET.                                               *)
(***************************************************************************)
\* new Date(iso).getTime() for the timestamps the model uses
DateParse(iso) ==
    CASE iso = "1970-01-02T00:00:00.000Z" -> 86400000
      [] iso = "1970-01-03T00:00:00.000Z" -> 172800000

\* new Date(a.createdAt || 0).getTime()
getTime(a) == IF Truthy(a.createdAt) THEN DateParse(a.createdAt.s) ELSE 0

\* the comparator (a, b) => bTime - aTime
compare(a, b) == getTime(b) - getTime(a)

RECURSIVE insertSorted(_, _)
insertSorted(x, sorted) ==
    IF Len(sorted) = 0 THEN <<x>>
    ELSE IF compare(x, Head(sorted)) <= 0 THEN <<x>> \o sorted
    ELSE <<Head(sorted)>> \o insertSorted(x, Tail(sorted))

\* Array.prototype.sort with the comparator: stable, descending by time
RECURSIVE sort(_)
sort(s) == IF Len(s) = 0 THEN <<>> ELSE insertSorted(Head(s), sort(Tail(s)))

\* the comparator reads a.createdAt: a TypeError on a null element, and it is
\* called on every element as soon as there are two
SortThrows(s) == Len(s) >= 2 /\ \E i \in 1..Len(s) : s[i].kind = "null"

GetOutcome(list, redisUp) ==
    IF ~redisUp \/ SortThrows(lrange(list))
    THEN [status |-> 500, messages |-> <<>>]
    ELSE [status |-> 200, messages |-> sort(lrange(list))]

(***************************************************************************)
(* submission/route.ts: DELETE.                                            *)
(***************************************************************************)
\* parsed.eventId === eventId; reading it off a null element throws inside
\* the per-item try and the item is skipped
EventMatches(parsed, eventId) == parsed.kind # "null" /\ parsed.eventId = eventId

\* the scan of lines 113-127: the index of the first match, 0 for -1
targetIndex(allItems, eventId) ==
    IF \E i \in 1..Len(allItems) : EventMatches(allItems[i], eventId)
    THEN CHOOSE i \in 1..Len(allItems) :
             /\ EventMatches(allItems[i], eventId)
             /\ \A j \in 1..(i - 1) : ~EventMatches(allItems[j], eventId)
    ELSE 0

\* the part of DELETE up to its second await: a status, or 0 to go on to lrem
DeleteScan(eventId, allItems, redisUp) ==
    IF ~Truthy(eventId) THEN 400
    ELSE IF ~redisUp THEN 500
    ELSE IF targetIndex(allItems, eventId) = 0 THEN 404
    ELSE 0

(***************************************************************************)
(* teams/update/route.ts: team-member pairs and authorization.             *)
(***************************************************************************)
\* the body of the loop of lines 46-58 for one i: the pair pushed, if any
PairAt(record, i) ==
    LET emailField == findFieldByLabel(record.data.fields, Digit(i) \o ": Email")
        phoneField == findFieldByLabel(record.data.fields, Digit(i) \o ": Phone number")
        email      == normalizeEmail(ValueOf(emailField))
        phone      == normalizePhone(ValueOf(phoneField))
    IN  IF /\ Truthy(ValueOf(emailField)) /\ Truthy(ValueOf(phoneField))
           /\ email # "" /\ phone # ""
        THEN <<[email |-> email, phone |-> phone]>>
        ELSE <<>>

RECURSIVE PairsUpTo(_, _)
PairsUpTo(record, n) ==
    IF n = 0 THEN <<>> ELSE PairsUpTo(record, n - 1) \o PairAt(record, n)

extractTeamMemberPairs(record) ==
    IF record.kind # "obj" \/ ~record.hasData \/ ~record.data.hasFields THEN <<>>
    ELSE PairsUpTo(record, 9)

\* mutant of isAuthorized: the email and the phone are looked for separately
isAuthorizedAnyPair(teamMemberPairs, submitterEmail, submitterPhone) ==
    /\ \E k \in 1..Len(teamMemberPairs) : teamMemberPairs[k].email = submitterEmail
    /\ \E k \in 1..Len(teamMemberPairs) : teamMemberPairs[k].phone = submitterPhone

\* teamMemberPairs.some(pair => pair.email === submitterEmail && pair.phone === submitterPhone)
isAuthorized(teamMemberPairs, submitterEmail, submitterPhone) ==
    \E k \in 1..Len(teamMemberPairs) :
        /\ teamMemberPairs[k].email = submitterEmail
        /\ teamMemberPairs[k].phone = submitterPhone

(***************************************************************************)
(* teams/update/route.ts: checks before the list is read (lines 67-112).   *)
(***************************************************************************)
submitterEmailField(json) ==
    findFieldByLabel(json.data.fields, "Email of person filling this form")

submitterPhoneField(json) ==
    findFieldByLabel(json.data.fields, "Phone number of person filling this form")

teamIdField(json) == findFieldByLabel(json.data.fields, "Team ID")

previousSubmissionId(json) == StringOf(ValueOf(teamIdField(json)))

\* a status, or 0 when the request goes on to redis.lrange
Validate(req) ==
    IF ~isValidSignature(req.body, req.signature) THEN 401
    ELSE IF ~req.body.parses THEN 400
    ELSE IF req.body.json.kind = "null" THEN handleError   \* json.data on null throws
    ELSE IF ~req.body.json.hasData \/ ~req.body.json.data.hasFields THEN 400
    ELSE IF \/ ~Truthy(ValueOf(submitterEmailField(req.body.json)))
            \/ ~Truthy(ValueOf(submitterPhoneField(req.body.json))) THEN 400
    ELSE IF ~Truthy(ValueOf(teamIdField(req.body.json))) THEN 400
    ELSE 0

(***************************************************************************)
(* teams/update/route.ts: lookup of the previous record (lines 118-142).   *)
(***************************************************************************)
\* mutant of RecordMatches: a successor is found by the record it supersedes
RecordMatchesLineage(record, id) ==
    /\ record.kind = "obj" /\ record.hasData
    /\ \/ record.data.submissionId = Str(id)
       \/ record.data.responseId = Str(id)
       \/ record.pts = Str(id)

\* record.data?.submissionId === id || record.data?.responseId === id; a null
\* element throws inside the per-record try and is skipped
RecordMatches(record, id) ==
    /\ record.kind = "obj" /\ record.hasData
    /\ (record.data.submissionId = Str(id) \/ record.data.responseId = Str(id))

\* index of the previous record in rawMessages, 0 when there is none
previousIndex(rawMessages, id) ==
    IF \E i \in 1..Len(rawMessages) : RecordMatches(rawMessages[i], id)
    THEN CHOOSE i \in 1..Len(rawMessages) :
             /\ RecordMatches(rawMessages[i], id)
             /\ \A j \in 1..(i - 1) : ~RecordMatches(rawMessages[j], id)
    ELSE 0

(***************************************************************************)
(* teams/update/route.ts: merge (lines 165-213).                           *)
(***************************************************************************)
\* findIndex(f => f.label === updateField.label), 0 for -1
existingFieldIndex(fields, label) ==
    IF \E i \in 1..Len(fields) : fields[i].label = label
    THEN CHOOSE i \in 1..Len(fields) :
             fields[i].label = label /\ \A j \in 1..(i - 1) : fields[j].label # label
    ELSE 0

\* mutant of ProvidesValue: the empty string counts as a value
ProvidesValueNotNull(updateField) ==
    updateField.value.t # "null" /\ updateField.value.t # "undef"

\* updateField.value !== null && !== undefined && !== ''
ProvidesValue(updateField) ==
    /\ updateField.value.t # "null"
    /\ updateField.value.t # "undef"
    /\ updateField.value # Str("")

\* mutant of mergeField: every labelled update field is appended
mergeFieldAlwaysAppend(fields, updateField) ==
    IF updateField.label = "" THEN fields ELSE Append(fields, updateField)

\* one iteration of the loop of lines 170-200
mergeField(fields, updateField) ==
    LET k == existingFieldIndex(fields, updateField.label) IN
    IF updateField.label = "" THEN fields
    ELSE IF k > 0
    THEN [fields EXCEPT ![k] =
            [key     |-> updateField.key,
             label   |-> @.label,
             type    |-> IF updateField.type # "" THEN updateField.type ELSE @.type,
             value   |-> IF ProvidesValue(updateField) THEN updateField.value ELSE @.value,
             options |-> IF updateField.options # "" THEN updateField.options ELSE @.options]]
    ELSE Append(fields, updateField)

RECURSIVE mergeFields(_, _)
mergeFields(fields, updateFields) ==
    IF Len(updateFields) = 0 THEN fields
    ELSE mergeFields(mergeField(fields, Head(updateFields)), Tail(updateFields))

\* mutant of previousTeamState: responseId first
previousTeamStateResponseFirst(previousRecord) ==
    OrElse(previousRecord.data.responseId, previousRecord.data.submissionId)

\* line 203: previousRecord.data?.submissionId || previousRecord.data?.responseId
previousTeamState(previousRecord) ==
    OrElse(previousRecord.data.submissionId, previousRecord.data.responseId)

mergedRecord(previousRecord, json) ==
    [kind      |-> "obj",
     eventId   |-> json.eventId,
     createdAt |-> json.createdAt,
     hasData   |-> TRUE,
     data      |-> [responseId   |-> json.data.responseId,
                    submissionId |-> json.data.submissionId,
                    respondentId |-> json.data.respondentId,
                    formId       |-> json.data.formId,
                    formName     |-> json.data.formName,
                    createdAt    |-> json.data.createdAt,
                    hasFields    |-> TRUE,
                    fields       |-> mergeFields(previousRecord.data.fields,
                                                 json.data.fields)],
     pts       |-> previousTeamState(previousRecord)]

\* the part of POST between redis.lrange and redis.lpush, for a request that
\* passed Validate: a status, or 0 when the request goes on to lpush
Authorize(json, rawMessages) ==
    LET k == previousIndex(rawMessages, previousSubmissionId(json)) IN
    IF k = 0 THEN 404
    ELSE IF ~isAuthorized(extractTeamMemberPairs(rawMessages[k]),
                          normalizeEmail(ValueOf(submitterEmailField(json))),
                          normalizePhone(ValueOf(submitterPhoneField(json))))
    THEN 403
    ELSE 0

\* the record lpush is given
Successor(json, rawMessages) ==
    mergedRecord(rawMessages[previousIndex(rawMessages, previousSubmissionId(json))], json)

(***************************************************************************)
(* Requests of the submission route.                                       *)
(***************************************************************************)
Day2 == "1970-01-02T00:00:00.000Z"
Day3 == "1970-01-03T00:00:00.000Z"

FormData(id, fields) ==
    [responseId |-> Str(id), submissionId |-> Str(id), respondentId |-> Str("resp-" \o id),
     formId |-> Str("form1"), formName |-> Str("F"), createdAt |-> Str(Day2),
     hasFields |-> TRUE, fields |-> fields]

Field(key, label, type, value, options) ==
    [key |-> key, label |-> label, type |-> type, value |-> value, options |-> options]

Text(key, label, value) == Field(key, label, "INPUT_TEXT", Str(value), "")

\* deliveries of event e1 (twice, with different bodies), an event without
\* data, and JSON bodies that are not objects
SubmissionDocs ==
    { Obj(Str("e1"), Str(Day2), TRUE,
          FormData("s1", <<Text("q1", "1: Email", "a@x.com"),
                           Text("q2", "1: Phone number", "111")>>)),
      Obj(Str("e1"), Str(Day3), TRUE, FormData("s1", <<>>)),
      Obj(Str("e2"), Undef, FALSE, NoData),
      Scalar("null"), Scalar("num"), Scalar("str") }

SubmissionBodies == {Body(d) : d \in SubmissionDocs} \cup {Malformed}

\* every body signed; an object, JSON null and a malformed body without a
\* signature; an object and JSON null with the signature of another body
SubmissionRequests ==
    {[body |-> b, signature |-> Sign(b)] : b \in SubmissionBodies}
    \cup {[body |-> b, signature |-> NoSignature] :
             b \in {Body(Obj(Str("e2"), Undef, FALSE, NoData)), Body(Scalar("null")), Malformed}}
    \cup {[body |-> b, signature |-> Sign(Malformed)] :
             b \in {Body(Obj(Str("e2"), Undef, FALSE, NoData)), Body(Scalar("null"))}}

\* the eventId of a DELETE body
DeleteEventIds == {Str("e1"), Str("e2"), Undef}

NoRequest == [body |-> Malformed, signature |-> NoSignature]

(***************************************************************************)
(* Requests in flight. A handler runs up to its next await of Redis in one *)
(* step; between two awaits of one request the other requests run.         *)
(***************************************************************************)
Procs == {1, 2}

(***************************************************************************)
(* The submission route. POST and GET call Redis once and take effect in   *)
(* one step. DELETE awaits redis.lrange and later redis.lrem: of what it   *)
(* read it keeps eventId and allItems[targetIndex] for the second call.    *)
(* Two DELETE requests can be suspended at their lrem.                     *)
(***************************************************************************)
\* no DELETE in flight; overlapped records that another request ran
\* between the two Redis calls of the DELETE
Idle == [pc |-> "idle", eventId |-> Undef, target |-> Scalar("null"), overlapped |-> FALSE]

NoResponse ==
    [op |-> "none", status |-> 0, req |-> NoRequest, eventId |-> Undef, redisUp |-> TRUE,
     before |-> <<>>, messages |-> <<>>, target |-> Scalar("null"), overlapped |-> FALSE]

\* a request other than p's has run: the DELETEs suspended at lrem overlap it
Overlap(p) ==
    [q \in Procs |-> IF q # p /\ procs[q].pc = "lrem"
                     THEN [procs[q] EXCEPT !.overlapped = TRUE]
                     ELSE procs[q]]

InitSubmission ==
    /\ submissions = <<>>
    /\ teams = <<>>
    /\ initial = teams
    /\ last = NoResponse
    /\ procs = [p \in Procs |-> Idle]

\* POST of submission/route.ts
POST_submission(req, redisUp) ==
    LET out == PostOutcome(req, redisUp) IN
    /\ Len(submissions) < MaxSubmissions
    /\ submissions' = IF out.pushed THEN lpush(submissions, req.body.json) ELSE submissions
    /\ last' = [NoResponse EXCEPT !.op = "POST", !.status = out.status, !.req = req,
                                  !.redisUp = redisUp, !.before = submissions]
    /\ procs' = Overlap(0)
    /\ UNCHANGED <<teams, initial>>

\* GET of submission/route.ts
GET(redisUp) ==
    LET out == GetOutcome(submissions, redisUp) IN
    /\ last' = [NoResponse EXCEPT !.op = "GET", !.status = out.status, !.redisUp = redisUp,
                                  !.before = submissions, !.messages = out.messages]
    /\ procs' = Overlap(0)
    /\ UNCHANGED <<submissions, teams, initial>>

\* DELETE, lines 98-132: from the request to a 400, 500 or 404 response, or
\* to the await of redis.lrem
DeleteRead(p, eventId, redisUp) ==
    LET allItems == lrange(submissions)
        scan     == DeleteScan(eventId, allItems, redisUp)
    IN
    /\ procs[p].pc = "idle"
    /\ IF scan # 0
       THEN /\ last' = [NoResponse EXCEPT !.op = "DELETE", !.status = scan,
                                          !.eventId = eventId, !.redisUp = redisUp,
                                          !.before = submissions]
            /\ procs' = Overlap(p)
       ELSE /\ last' = last
            /\ procs' = [Overlap(p) EXCEPT ![p] =
                            [pc |-> "lrem", eventId |-> eventId,
                             target |-> allItems[targetIndex(allItems, eventId)],
                             overlapped |-> FALSE]]
    /\ UNCHANGED <<submissions, teams, initial>>

\* DELETE, lines 134-142: redis.lrem, whose result is only logged, and the
\* response
DeleteRemove(p, lremUp) ==
    /\ procs[p].pc = "lrem"
    /\ submissions' = IF lremUp THEN lrem(submissions, procs[p].target) ELSE submissions
    /\ last' = [NoResponse EXCEPT !.op = "DELETE",
                                  !.status = IF lremUp THEN 200 ELSE handleError,
                                  !.eventId = procs[p].eventId, !.redisUp = lremUp,
                                  !.before = submissions, !.target = procs[p].target,
                                  !.overlapped = procs[p].overlapped]
    /\ procs' = [Overlap(p) EXCEPT ![p] = Idle]
    /\ UNCHANGED <<teams, initial>>

NextSubmission ==
    \/ \E req \in SubmissionRequests, redisUp \in BOOLEAN : POST_submission(req, redisUp)
    \/ \E redisUp \in BOOLEAN : GET(redisUp)
    \/ \E p \in Procs, eventId \in DeleteEventIds, redisUp \in BOOLEAN :
           DeleteRead(p, eventId, redisUp)
    \/ \E p \in Procs, lremUp \in BOOLEAN : DeleteRemove(p, lremUp)

SpecSubmission == InitSubmission /\ [][NextSubmission]_vars

(***************************************************************************)
(* Records and requests of the team update route.                          *)
(***************************************************************************)
TeamName(value) == Text("q0", "Team name", value)

\* a registration with two members; the second is stored unnormalised
Alpha ==
    Obj(Str("ev-s1"), Str(Day2), TRUE,
        FormData("s1", <<TeamName("Alpha"),
                         Text("q1", "1: Email", "a@x.com"),
                         Text("q2", "1: Phone number", "111"),
                         Text("q3", "2: Email", " B@Y.com\r\n"),
                         Text("q4", "2: Phone number", "2 2\n2"),
                         Text("q5", "", "misc")>>))

\* a later record with Alpha's identifier and another member
AlphaAgain ==
    Obj(Str("ev-s1b"), Str(Day3), TRUE,
        FormData("s1", <<TeamName("Alpha"),
                         Text("q1", "1: Email", "c@z.com"),
                         Text("q2", "1: Phone number", "333")>>))

\* a record whose responseId differs from its submissionId
Gamma ==
    Obj(Str("ev-s9"), Str(Day2), TRUE,
        [FormData("s9", <<TeamName("Gamma"),
                          Text("q1", "1: Email", "a@x.com"),
                          Text("q2", "1: Phone number", "111")>>)
            EXCEPT !.responseId = Str("r1")])

\* a record without submissionId
Delta ==
    Obj(Str("ev-r2"), Str(Day2), TRUE,
        [FormData("r2", <<Text("q1", "1: Email", "a@x.com"),
                          Text("q2", "1: Phone number", "111")>>)
            EXCEPT !.submissionId = Undef])

\* member 1's phone is a number and member 2 has no phone: no pair
Lonely ==
    Obj(Str("ev-s4"), Str(Day2), TRUE,
        FormData("s4", <<Text("q1", "1: Email", "a@x.com"),
                         Field("q2", "1: Phone number", "INPUT_NUMBER", Num("111"), ""),
                         Text("q3", "2: Email", "b@y.com")>>))

\* labels that contain the labels looked for
Wide ==
    Obj(Str("ev-s3"), Str(Day2), TRUE,
        FormData("s3", <<Text("q1", "11: Email", "c@z.com"),
                         Text("q2", "1: Phone number (mobile)", "333")>>))

\* the three fields every accepted update carries; "" leaves a field out
SubmitterFields(email, phone, teamId) ==
    (IF email.t = "undef" THEN <<>>
     ELSE <<Field("u1", "Email of person filling this form", "INPUT_EMAIL", email, "")>>)
    \o (IF phone.t = "undef" THEN <<>>
        ELSE <<Field("u2", "Phone number of person filling this form",
                     "INPUT_PHONE_NUMBER", phone, "")>>)
    \o (IF teamId = "" THEN <<>> ELSE <<Text("u3", "Team ID", teamId)>>)

Submitters ==
    { <<Str(" A@X.COM"), Str(" 1\t11 ")>>,     \* member 1, unnormalised
      <<Str("b@y.com"), Str("222")>>,         \* member 2
      <<Str("a@x.com"), Str("222")>>,         \* email of 1, phone of 2
      <<Str("c@z.com"), Str("333")>>,
      <<Str("a@x.com"), Num("111")>>,         \* phone sent as a number
      <<Str("a@x.com"), Undef>> }             \* no phone

TeamIds == {"s1", "r1", "r2", "s3", "s4", "zz", ""}

\* fields an update adds to the submitter's
Extras ==
    { <<>>,
      <<Field("n0", "Team name", "", Str(""), "")>>,
      <<Field("n0", "Team name", "DROPDOWN", Str("Beta"), "opts")>>,
      <<Field("n0", "Team name", "", Null, "opts")>>,
      <<Field("n0", "Team name", "", Str("Beta"), ""),
        Field("n1", "Team name", "", Str(""), "")>>,
      <<Text("n2", "Notes", "x"), Text("n3", "Notes", "y")>>,
      <<Text("n4", "3: Email", "c@z.com"), Text("n5", "3: Phone number", "333"),
        Field("n6", "", "", Str(""), "")>>,
      <<Field("n7", "1: Email", "", Undef, "")>> }

\* the envelope of an update: its own identifiers
Envelope(id, fields) ==
    Obj(Str("ev-" \o id), Str(Day3), TRUE,
        [FormData(id, fields) EXCEPT !.formId = Str("form2"), !.formName = Str("Update")])

Update(id, submitter, teamId, extra) ==
    Envelope(id, SubmitterFields(submitter[1], submitter[2], teamId) \o extra)

Member1 == <<Str(" A@X.COM"), Str(" 1\t11 ")>>

UpdateDocs ==
    {Update("u1", sub, t, <<>>) : sub \in Submitters, t \in {"s1", "s3", "s4"}}
    \cup {Update("u1", Member1, t, <<>>) : t \in TeamIds}
    \cup {Update("u1", sub, t, <<>>) : sub \in {<<Str("a@x.com"), Str("222")>>,
                                                <<Str("a@x.com"), Undef>>},
                                       t \in {"zz", ""}}
    \cup {Update(id, Member1, "s1", x) : id \in {"u1", "u2"}, x \in Extras}
    \cup {Update("u2", Member1, t, x) : t \in {"u1", "r1", "r2"},
                                        x \in {<<Field("n0", "Team name", "", Str(""), "")>>}}
    \cup {Update("s1", Member1, "s1", <<>>),
          Update("u2", <<Str("b@y.com"), Str("222")>>, "s1", <<Text("n2", "Notes", "x")>>)}
    \cup {Obj(Str("ev-u3"), Str(Day3), TRUE, [NoData EXCEPT !.submissionId = Str("u3")]),
          Obj(Str("ev-u3"), Str(Day3), FALSE, NoData),
          Scalar("null"), Scalar("num")}

UpdateRequests ==
    {[body |-> Body(d), signature |-> Sign(Body(d))] : d \in UpdateDocs}
    \cup {[body |-> Malformed, signature |-> Sign(Malformed)]}
    \cup {[body |-> Body(d), signature |-> NoSignature] :
             d \in {Update("u1", sub, t, <<>>) : sub \in {Member1, <<Str("a@x.com"), Undef>>},
                                                 t \in {"s1", "zz"}}}
    \cup {[body |-> Malformed, signature |-> NoSignature],
          [body |-> Body(Scalar("null")), signature |-> Sign(Malformed)]}

\* the contents of enrolment-participants-teams before the run: registrations,
\* an element that is JSON null, and the successor of an earlier update
InitialTeams ==
    { <<Alpha>>,
      <<Scalar("null"), Alpha, AlphaAgain>>,
      <<Gamma, Delta>>,
      <<Lonely, Wide>>,
      <<mergedRecord(Alpha, Update("u1", Member1, "s1", <<>>)), Alpha>> }

(***************************************************************************)
(* The team update route. POST awaits redis.lrange and later redis.lpush:  *)
(* the record it pushes is merged from the list it read, whatever other    *)
(* requests pushed in between. Two requests run, each kept with its        *)
(* response once answered.                                                 *)
(***************************************************************************)
Waiting ==
    [pc |-> "idle", req |-> NoRequest, status |-> 0, redisError |-> "", read |-> FALSE,
     rawMessages |-> <<>>, record |-> Scalar("null"), pushed |-> FALSE]

InitTeams ==
    /\ submissions = <<>>
    /\ teams \in InitialTeams
    /\ initial = teams
    /\ last = NoResponse
    /\ procs = [p \in Procs |-> Waiting]

\* a request answered before its redis.lpush
Responded(req, status, redisError, read, rawMessages) ==
    [Waiting EXCEPT !.pc = "done", !.req = req, !.status = status,
                    !.redisError = redisError, !.read = read, !.rawMessages = rawMessages]

\* POST, lines 67-213: from the request to a 401, 400, 500, 404 or 403
\* response, or to the await of redis.lpush with the merged record
UpdateRead(p, req, lrangeUp) ==
    LET v           == Validate(req)
        rawMessages == lrange(teams)
        a           == Authorize(req.body.json, rawMessages)
    IN
    /\ procs[p].pc = "idle"
    /\ procs' = [procs EXCEPT ![p] =
          IF v # 0 THEN Responded(req, v, "", FALSE, <<>>)
          ELSE IF ~lrangeUp THEN Responded(req, handleError, "lrange", FALSE, <<>>)
          ELSE IF a # 0 THEN Responded(req, a, "", TRUE, rawMessages)
          ELSE [Waiting EXCEPT !.pc = "lpush", !.req = req, !.read = TRUE,
                               !.rawMessages = rawMessages,
                               !.record = Successor(req.body.json, rawMessages)]]
    /\ UNCHANGED <<submissions, teams, initial, last>>

\* POST, lines 216-223: redis.lpush and the response
UpdatePush(p, lpushUp) ==
    /\ procs[p].pc = "lpush"
    /\ teams' = IF lpushUp THEN lpush(teams, procs[p].record) ELSE teams
    /\ procs' = [procs EXCEPT ![p].pc = "done",
                              ![p].status = IF lpushUp THEN 200 ELSE handleError,
                              ![p].redisError = IF lpushUp THEN "" ELSE "lpush",
                              ![p].pushed = (teams' # teams)]
    /\ UNCHANGED <<submissions, initial, last>>

NextTeams ==
    \/ \E p \in Procs, req \in UpdateRequests, lrangeUp \in BOOLEAN : UpdateRead(p, req, lrangeUp)
    \/ \E p \in Procs, lpushUp \in BOOLEAN : UpdatePush(p, lpushUp)

SpecTeams == InitTeams /\ [][NextTeams]_vars

(***************************************************************************)
(* Vocabulary of the claims.                                               *)
(***************************************************************************)
Non2xx(status) == ~(status \in 200..299)

\* the entries of a list that carry eventId
EntriesWith(list, eventId) == {i \in 1..Len(list) : EventMatches(list[i], eventId)}

\* every entry with eventId is one whose POST responded 200
Ingested(list, eventId) ==
    \A i \in EntriesWith(list, eventId) : ~LogLineThrows(list[i])

Occurrences(list, x) == Cardinality({i \in 1..Len(list) : list[i] = x})

\* the DELETE answered last ran from its read to its response with no other
\* request in between
DeletedAlone == last.op = "DELETE" /\ last.status = 200 /\ ~last.overlapped

\* of the update of request p: whether it is answered, its JSON, its Team ID,
\* the record found for it in the list it read
Answered(p) == procs[p].pc = "done"
Updated(p)  == Answered(p) /\ procs[p].status = 200
JsonOf(p)   == procs[p].req.body.json
TeamOf(p)   == ValueOf(teamIdField(JsonOf(p)))
PriorOf(p)  == procs[p].rawMessages[previousIndex(procs[p].rawMessages, StringOf(TeamOf(p)))]
InList(record) == \E i \in 1..Len(teams) : teams[i] = record

\* the submitter's normalized pair is the pair of team member i of record
MemberIs(record, i, json) ==
    LET fields == record.data.fields
        e == {k \in 1..Len(fields) : includes(fields[k].label, Digit(i) \o ": Email")}
        p == {k \in 1..Len(fields) : includes(fields[k].label, Digit(i) \o ": Phone number")}
        first(S) == CHOOSE k \in S : \A j \in S : k <= j
        se == normalizeEmail(ValueOf(submitterEmailField(json)))
        sp == normalizePhone(ValueOf(submitterPhoneField(json)))
    IN  /\ e # {} /\ p # {}
        /\ se # "" /\ sp # ""
        /\ normalizeEmail(fields[first(e)].value) = se
        /\ normalizePhone(fields[first(p)].value) = sp

(***************************************************************************)
(* C1: a POST of either route that responds with a status outside 2xx      *)
(* leaves both lists exactly as they were before the request.              *)
(***************************************************************************)
C1_NoPartialWrite ==
    /\ (last.op = "POST" /\ Non2xx(last.status))
          => (submissions = last.before /\ teams = initial)
    /\ \A p \in Procs :
          (procs[p].pc = "done" /\ Non2xx(procs[p].status))
              => (~procs[p].pushed /\ submissions = <<>>)

\* the part of C1 that is about the team update route
UpdateNoPartialWrite ==
    \A p \in Procs :
        (Answered(p) /\ Non2xx(procs[p].status)) => (~procs[p].pushed /\ submissions = <<>>)

(***************************************************************************)
(* C9: whatever POSTs and DELETEs came before, a GET that reaches Redis    *)
(* responds 200 with exactly one message per list element.                 *)
(***************************************************************************)
C9_GetNeverFails ==
    (last.op = "GET" /\ last.redisUp) =>
        /\ last.status = 200
        /\ Len(last.messages) = Len(submissions)
        /\ \A i \in 1..Len(submissions) :
               Occurrences(last.messages, submissions[i]) = Occurrences(submissions, submissions[i])

(***************************************************************************)
(* C3 as stated, for requests handled one after another: an ingested       *)
(* submission is returned by GET (by every GET that responds 200, see C9   *)
(* for the others); after a DELETE of eventId E that responds 200, GET     *)
(* holds no entry with eventId E and a second DELETE of E responds 404,    *)
(* whatever was ingested before.                                           *)
(***************************************************************************)
C3_DeleteRemovesEvent ==
    /\ (last.op = "POST" /\ last.status = 200) =>
          LET get == GetOutcome(submissions, TRUE) IN
          /\ \E i \in 1..Len(submissions) : submissions[i] = last.req.body.json
          /\ get.status = 200 =>
                \E i \in 1..Len(get.messages) : get.messages[i] = last.req.body.json
    /\ (DeletedAlone /\ Ingested(last.before, last.eventId)) =>
          /\ EntriesWith(GetOutcome(submissions, TRUE).messages, last.eventId) = {}
          /\ DeleteScan(last.eventId, lrange(submissions), TRUE) = 404

(***************************************************************************)
(* C3 amended, for requests handled one after another: an ingested         *)
(* submission is in the list and every GET that responds 200 returns it; a *)
(* DELETE of E that responds 200 removes exactly one entry with eventId E, *)
(* so when E was in the list once no entry with E is left, GET holds none  *)
(* and a second DELETE of E responds 404.                                  *)
(***************************************************************************)
C3_DeleteRemovesOneDelivery ==
    /\ (last.op = "POST" /\ last.status = 200) =>
          LET get == GetOutcome(submissions, TRUE) IN
          /\ \E i \in 1..Len(submissions) : submissions[i] = last.req.body.json
          /\ get.status = 200 =>
                \E i \in 1..Len(get.messages) : get.messages[i] = last.req.body.json
    /\ DeletedAlone =>
          /\ Cardinality(EntriesWith(submissions, last.eventId))
                = Cardinality(EntriesWith(last.before, last.eventId)) - 1
          /\ Len(submissions) = Len(last.before) - 1
          /\ Cardinality(EntriesWith(last.before, last.eventId)) = 1 =>
                /\ EntriesWith(GetOutcome(submissions, TRUE).messages, last.eventId) = {}
                /\ DeleteScan(last.eventId, lrange(submissions), TRUE) = 404

\* a DELETE that ran alone and responded 200 for an event delivered once
\* among other entries
C3_Witness ==
    /\ DeletedAlone
    /\ Cardinality(EntriesWith(last.before, last.eventId)) = 1
    /\ Len(last.before) >= 2

(***************************************************************************)
(* C10: every DELETE that responds 200 has removed exactly one element,    *)
(* one with the requested eventId, also when two DELETE requests for the   *)
(* same eventId interleave: two 200 responses mean two elements removed.   *)
(* Stated for entries a POST answered 200 has stored.                      *)
(***************************************************************************)
C10_SuccessMeansRemoved ==
    (last.op = "DELETE" /\ last.status = 200 /\ ~LogLineThrows(last.target)) =>
        /\ Len(submissions) = Len(last.before) - 1
        /\ EventMatches(last.target, last.eventId)

\* a DELETE answered 200 removes nothing only when another request ran
\* between its read and its removal
RemovesNoneOnlyWhenOverlapped ==
    (last.op = "DELETE" /\ last.status = 200 /\ submissions = last.before) => last.overlapped

(***************************************************************************)
(* C2: an update is pushed and answered 200 only if the submitter's        *)
(* normalized (email, phone) is the normalized pair of one team-member     *)
(* index i in 1..9 of the record found for its Team ID; a signed,          *)
(* well-formed update whose record exists and whose pair is that of no     *)
(* index is answered 403 and pushes nothing.                               *)
(***************************************************************************)
C2_AuthorizedByOneMember ==
    \A p \in Procs :
        Answered(p) =>
            /\ procs[p].pushed => procs[p].status = 200
            /\ procs[p].status = 200 =>
                  /\ procs[p].pushed /\ InList(procs[p].record)
                  /\ \E i \in 1..9 : MemberIs(PriorOf(p), i, JsonOf(p))
            /\ ( /\ Validate(procs[p].req) = 0
                 /\ procs[p].redisError = ""
                 /\ previousIndex(procs[p].rawMessages, StringOf(TeamOf(p))) # 0
                 /\ ~\E i \in 1..9 : MemberIs(PriorOf(p), i, JsonOf(p)) )
               => (procs[p].status = 403 /\ ~procs[p].pushed)

\* a 403 for the email of member 1 sent with the phone of member 2, which is
\* stored with a line feed in it
C2_Witness ==
    \E p \in Procs :
        /\ Answered(p) /\ procs[p].status = 403
        /\ LET fields == PriorOf(p).data.fields IN
           \E k, m \in 1..Len(fields) :
               /\ fields[k].label = "1: Email" /\ fields[m].label = "2: Phone number"
               /\ normalizeEmail(fields[k].value)
                     = normalizeEmail(ValueOf(submitterEmailField(JsonOf(p))))
               /\ normalizePhone(fields[m].value)
                     = normalizePhone(ValueOf(submitterPhoneField(JsonOf(p))))
               /\ fields[m].value.s # normalizePhone(fields[m].value)

EnvelopeIsUpdates(record, json) ==
    /\ record.eventId = json.eventId
    /\ record.createdAt = json.createdAt
    /\ record.data.responseId = json.data.responseId
    /\ record.data.submissionId = json.data.submissionId
    /\ record.data.respondentId = json.data.respondentId
    /\ record.data.formId = json.data.formId
    /\ record.data.formName = json.data.formName
    /\ record.data.createdAt = json.data.createdAt

(***************************************************************************)
(* C4 as stated: the record pushed by an update answered 200 has           *)
(* previous-team-state equal to the value T of the Team ID field, whichever *)
(* record the lookup selected, and the envelope of the update.             *)
(***************************************************************************)
C4_PreviousStateIsTeamId ==
    \A p \in Procs :
        Updated(p) =>
            /\ InList(procs[p].record)
            /\ procs[p].record.pts = TeamOf(p)
            /\ EnvelopeIsUpdates(procs[p].record, JsonOf(p))

(***************************************************************************)
(* C4 amended: previous-team-state is the selected record's submissionId,  *)
(* or its responseId when it has no submissionId; it equals T when the     *)
(* record matched on submissionId or has none; the envelope is the         *)
(* update's.                                                               *)
(***************************************************************************)
C4_PreviousStateIsPriorId ==
    \A p \in Procs :
        Updated(p) =>
            /\ InList(procs[p].record)
            /\ procs[p].record.pts = IF Truthy(PriorOf(p).data.submissionId)
                                     THEN PriorOf(p).data.submissionId
                                     ELSE PriorOf(p).data.responseId
            /\ ( \/ PriorOf(p).data.submissionId = TeamOf(p)
                 \/ ~Truthy(PriorOf(p).data.submissionId) )
                  => procs[p].record.pts = TeamOf(p)
            /\ EnvelopeIsUpdates(procs[p].record, JsonOf(p))

\* an update answered 200 whose record matched on responseId only
C4_Witness ==
    \E p \in Procs :
        /\ Updated(p)
        /\ PriorOf(p).data.responseId = TeamOf(p)
        /\ Truthy(PriorOf(p).data.submissionId)
        /\ PriorOf(p).data.submissionId # TeamOf(p)

(***************************************************************************)
(* Vocabulary of the merge claims: of the update of request p, the fields  *)
(* it sent, the fields of the record it was merged onto, and the fields of *)
(* the record pushed.                                                      *)
(***************************************************************************)
Sent(p)   == JsonOf(p).data.fields
Before(p) == PriorOf(p).data.fields
After(p)  == procs[p].record.data.fields

EmptyValue(v) == v = Null \/ v = Undef \/ v = Str("")

LabelsOf(fields) == {fields[k].label : k \in 1..Len(fields)}

\* the position of the first field with the label
FirstWith(fields, label) ==
    CHOOSE k \in 1..Len(fields) :
        fields[k].label = label /\ \A j \in 1..(k - 1) : fields[j].label # label

\* prior fields whose label the update does not send stay where and as they were
UntouchedStay(p) ==
    /\ InList(procs[p].record)
    /\ Len(After(p)) >= Len(Before(p))
    /\ \A k \in 1..Len(Before(p)) :
           Before(p)[k].label \notin LabelsOf(Sent(p)) => After(p)[k] = Before(p)[k]

(***************************************************************************)
(* C5 as stated: every update field whose label is that of a prior field   *)
(* and whose value is null, undefined or '' leaves the prior value in the  *)
(* merged field with that label, gives it its key, and its type and        *)
(* options when it supplies them; prior fields with labels the update does *)
(* not send are unchanged and at the same position.                        *)
(***************************************************************************)
C5_EmptyValueKeepsPrior ==
    \A p \in Procs :
        Updated(p) =>
            /\ \A j \in 1..Len(Sent(p)) :
                   ( /\ Sent(p)[j].label \in LabelsOf(Before(p))
                     /\ EmptyValue(Sent(p)[j].value) ) =>
                       LET k == FirstWith(Before(p), Sent(p)[j].label) IN
                       /\ After(p)[k].label = Sent(p)[j].label
                       /\ After(p)[k].value = Before(p)[k].value
                       /\ After(p)[k].key = Sent(p)[j].key
                       /\ Sent(p)[j].type # "" => After(p)[k].type = Sent(p)[j].type
                       /\ Sent(p)[j].options # "" => After(p)[k].options = Sent(p)[j].options
            /\ UntouchedStay(p)

(***************************************************************************)
(* C5 amended: for every update field with a non-empty label that is the   *)
(* label of a prior field and with a null, undefined or '' value, the      *)
(* first merged field with that label keeps the prior value unless another *)
(* update field with the same label supplies a value; its key is the key   *)
(* of the last update field with that label, its type and options those of *)
(* the last update field with that label that supplies them; prior fields  *)
(* with labels the update does not send are unchanged, at the same         *)
(* position. Update fields without a label are skipped.                    *)
(***************************************************************************)
C5_EmptyValueKeepsPriorUnlessSupplied ==
    \A p \in Procs :
        Updated(p) =>
            /\ \A j \in 1..Len(Sent(p)) :
                   ( /\ Sent(p)[j].label # ""
                     /\ Sent(p)[j].label \in LabelsOf(Before(p))
                     /\ EmptyValue(Sent(p)[j].value) ) =>
                       LET k == FirstWith(Before(p), Sent(p)[j].label)
                           same == {i \in 1..Len(Sent(p)) : Sent(p)[i].label = Sent(p)[j].label}
                           later == {i \in same : i > j}
                       IN
                       /\ After(p)[k].label = Sent(p)[j].label
                       /\ (\A i \in same : EmptyValue(Sent(p)[i].value))
                             => After(p)[k].value = Before(p)[k].value
                       /\ later = {} => After(p)[k].key = Sent(p)[j].key
                       /\ (Sent(p)[j].type # "" /\ \A i \in later : Sent(p)[i].type = "")
                             => After(p)[k].type = Sent(p)[j].type
                       /\ (Sent(p)[j].options # "" /\ \A i \in later : Sent(p)[i].options = "")
                             => After(p)[k].options = Sent(p)[j].options
            /\ \A k \in 1..Len(Before(p)) :
                   (Before(p)[k].label = "" /\ Len(After(p)) >= k) => After(p)[k] = Before(p)[k]
            /\ UntouchedStay(p)

\* an update answered 200 that sent an empty value for a prior label: the
\* value was kept and the key replaced
C5_Witness ==
    \E p \in Procs :
        /\ Updated(p)
        /\ \E j \in 1..Len(Sent(p)) :
               /\ Sent(p)[j].label # "" /\ Sent(p)[j].label \in LabelsOf(Before(p))
               /\ EmptyValue(Sent(p)[j].value)
               /\ LET k == FirstWith(Before(p), Sent(p)[j].label) IN
                  /\ After(p)[k].value = Before(p)[k].value
                  /\ After(p)[k].key = Sent(p)[j].key /\ After(p)[k].key # Before(p)[k].key
                  /\ After(p)[k].options # Before(p)[k].options

(***************************************************************************)
(* C6 as stated: the merged field count is the prior field count plus the  *)
(* number of labelled update fields whose label no prior field has.        *)
(***************************************************************************)
C6_CountGrowsPerUnseenField ==
    \A p \in Procs :
        Updated(p) =>
            Len(After(p)) = Len(Before(p))
                + Cardinality({j \in 1..Len(Sent(p)) :
                                  /\ Sent(p)[j].label # ""
                                  /\ Sent(p)[j].label \notin LabelsOf(Before(p))})

(***************************************************************************)
(* C6 amended: the merged field count is the prior field count plus the    *)
(* number of distinct non-empty labels of the update that no prior field   *)
(* has: the first update field with such a label is appended, a later one  *)
(* with the same label overwrites the appended field.                      *)
(***************************************************************************)
C6_CountGrowsPerUnseenLabel ==
    \A p \in Procs :
        Updated(p) =>
            /\ InList(procs[p].record)
            /\ Len(After(p)) = Len(Before(p))
                  + Cardinality({label \in LabelsOf(Sent(p)) :
                                    label # "" /\ label \notin LabelsOf(Before(p))})
            /\ \A j \in 1..Len(Sent(p)) :
                   (Sent(p)[j].label # "" /\ Sent(p)[j].label \notin LabelsOf(Before(p))) =>
                       /\ Sent(p)[j].label \in LabelsOf(After(p))
                       /\ FirstWith(After(p), Sent(p)[j].label) > Len(Before(p))

\* an update answered 200 that sent the same unseen label twice
C6_Witness ==
    \E p \in Procs :
        /\ Updated(p)
        /\ \E i, j \in 1..Len(Sent(p)) :
               /\ i < j /\ Sent(p)[i].label = Sent(p)[j].label
               /\ Sent(p)[i].label # "" /\ Sent(p)[i].label \notin LabelsOf(Before(p))

\* data.fields is an array and the submitter's email, phone and the Team ID
\* are present
PayloadValid(json) ==
    /\ json.kind # "null"
    /\ json.hasData /\ json.data.hasFields
    /\ Truthy(ValueOf(submitterEmailField(json)))
    /\ Truthy(ValueOf(submitterPhoneField(json)))
    /\ Truthy(ValueOf(teamIdField(json)))

\* the checks of request p in their order, with the list it read
ChecksInOrder(p) ==
    LET signed == isValidSignature(procs[p].req.body, procs[p].req.signature)
        parsed == signed /\ procs[p].req.body.parses
        valid  == parsed /\ PayloadValid(JsonOf(p))
        found  == valid /\ previousIndex(procs[p].rawMessages, StringOf(TeamOf(p))) # 0
        member == found /\ \E i \in 1..9 : MemberIs(PriorOf(p), i, JsonOf(p))
    IN
    /\ ~signed => procs[p].status = 401
    /\ (signed /\ ~parsed) => procs[p].status = 400
    /\ (parsed /\ ~valid) => procs[p].status = 400
    /\ (valid /\ ~found /\ procs[p].redisError = "") => procs[p].status = 404
    /\ (found /\ ~member /\ procs[p].redisError = "") => procs[p].status = 403
    /\ procs[p].read => valid
    /\ procs[p].pushed => member

(***************************************************************************)
(* C7: the checks of an update run in the order signature, JSON parse,     *)
(* payload validation, lookup, authorization, push: the response carries   *)
(* the status of the first check that fails (401, then 400, then 404, then *)
(* 403), the list is read only after signature, parse and validation have *)
(* passed, and written only after authorization has.                       *)
(***************************************************************************)
C7_ChecksInOrder ==
    \A p \in Procs : Answered(p) => ChecksInOrder(p)

\* the same order of checks for every body but JSON null
ChecksInOrderUnlessNull ==
    \A p \in Procs :
        (Answered(p) /\ ~(procs[p].req.body.parses /\ JsonOf(p).kind = "null"))
            => ChecksInOrder(p)

(***************************************************************************)
(* Two updates of the same record.                                         *)
(***************************************************************************)
Original(p) == initial[previousIndex(initial, StringOf(TeamOf(p)))]

EnvelopeIds(p) == {JsonOf(p).data.submissionId, JsonOf(p).data.responseId}

\* p and q carry authorized updates of the same record, with envelopes of
\* their own, and Redis fails neither
Racing(p, q) ==
    /\ p # q
    /\ procs[p].pc # "idle" /\ procs[q].pc # "idle"
    /\ Validate(procs[p].req) = 0 /\ Validate(procs[q].req) = 0
    /\ TeamOf(p) = TeamOf(q)
    /\ Authorize(JsonOf(p), initial) = 0 /\ Authorize(JsonOf(q), initial) = 0
    /\ Str(StringOf(TeamOf(p))) \notin EnvelopeIds(p) \cup EnvelopeIds(q)
    /\ EnvelopeIds(p) \cap EnvelopeIds(q) = {}
    /\ procs[p].redisError = "" /\ procs[q].redisError = ""

(***************************************************************************)
(* C8: two authorized updates with the same Team ID T, whose envelope      *)
(* identifiers differ from T and from each other, run concurrently: under  *)
(* every interleaving of their reads and pushes each responds 200 with the *)
(* merge of its own payload onto the original record, carrying             *)
(* previous-team-state of the original, and the list ends with both        *)
(* successors on top of the untouched original contents.                   *)
(***************************************************************************)
C8_BothSuccessorsOfOriginal ==
    \A p, q \in Procs :
        Racing(p, q) =>
            /\ procs[p].pc = "done" =>
                  /\ procs[p].status = 200
                  /\ procs[p].record = mergedRecord(Original(p), JsonOf(p))
                  /\ procs[p].record.pts = previousTeamState(Original(p))
                  /\ InList(procs[p].record)
            /\ (procs[p].pc = "done" /\ procs[q].pc = "done") =>
                  \/ teams = <<procs[p].record, procs[q].record>> \o initial
                  \/ teams = <<procs[q].record, procs[p].record>> \o initial

\* both responded 200 after reading the same list, and the successor pushed
\* last carries none of the other's changes
C8_Witness ==
    /\ Racing(1, 2)
    /\ procs[1].pc = "done" /\ procs[2].pc = "done"
    /\ procs[1].rawMessages = procs[2].rawMessages
    /\ procs[1].record.data.fields # procs[2].record.data.fields

\* both responded 200, the second having read the list after the first's push
RaceAfterPush ==
    /\ Racing(1, 2)
    /\ procs[1].pc = "done" /\ procs[2].pc = "done"
    /\ procs[1].record # procs[2].record
    /\ Len(procs[2].rawMessages) = Len(initial) + 1

====
